---- MODULE Spec2Model ----
(***************************************************************************)
(* Model of src/python/dedupe_files/dedupe_files.py: the duplicate-file    *)
(* detector (hash_file, scan_directory, group_by_hash, select_keeper,      *)
(* process_duplicates, main).                                              *)
(*                                                                         *)
(* A file name is a sequence of one-character strings; a path is a record  *)
(* [parent, name]; the file system is a record [files, dirs, links] where  *)
(* files maps each regular file's path to [origin, content] (origin is the *)
(* identity of the file, i.e. the path it had when the run started), dirs  *)
(* is the set of directories and links maps each symbolic link's path to   *)
(* the path it points to.                                                  *)
(***************************************************************************)
EXTENDS Integers, Sequences, FiniteSets, TLC

VARIABLES
    pc,                 \* position of the run inside main / process_duplicates
    fs,                 \* the file system: [files, dirs, links]
    fs0,                \* the file system when the run started
    unreadable,         \* paths whose open() fails with PermissionError
    vanished,           \* paths removed by somebody else after hashing
    args,               \* main: args.delete and args.move, once main has read them
    args_algorithm,     \* main: args.algorithm, once main has read it
    args_recursive,     \* main: args.recursive (-r on the command line)
    files,              \* main: files (result of scan_directory)
    hashed,             \* the calls of hash_file made so far, in order
    groups,             \* main: groups (ordered dict hash -> list of paths)
    action,             \* process_duplicates: action
    dest,               \* process_duplicates: dest
    gi,                 \* process_duplicates: position in groups.items()
    file_group,         \* process_duplicates / select_keeper: file_group
    keeper,             \* process_duplicates: keeper
    duplicates,         \* process_duplicates: duplicates
    di,                 \* process_duplicates: position in duplicates
    file_size,          \* process_duplicates: file_size
    total_removed,      \* process_duplicates: total_removed
    total_bytes_freed,  \* process_duplicates: total_bytes_freed
    stdout,             \* the lines printed to standard output
    stderr,             \* the messages printed to sys.stderr
    syscalls,           \* the unlink / mkdir / rename calls issued, with outcome
    exit_status,        \* the exit status of the process, NoneInt while running
    activities,         \* get_learning_logs: the list append_activity works on
    append_call,        \* get_learning_logs: the arguments of the last append_activity
    existing_names,     \* har_media_downloader: main's existing_names set
    returned,           \* har_media_downloader: the generate_filename calls made
    history_file,       \* zsh_history_cleaner: the lines of the history file
    settings,           \* zsh_history_cleaner: settings.json
    passes,             \* zsh_history_cleaner: the passes run on the file, in order
    calls               \* the number of calls made on a function driven on its own

\* the variables of the scripts other than dedupe_files
scripts == <<activities, append_call, existing_names, returned, history_file,
             settings, passes, calls>>

vars == <<pc, fs, fs0, unreadable, vanished, args, args_algorithm, args_recursive, files, hashed, groups, action, dest,
          gi, file_group, keeper, duplicates, di, file_size, total_removed,
          total_bytes_freed, stdout, stderr, syscalls, exit_status,
          scripts>>

-----------------------------------------------------------------------------
(* Bounds of the model.                                                    *)

\* how many files may be unreadable or removed externally in one run
MaxFaults == 2
\* the longest file_group handed to select_keeper on its own
MaxGroup == 3
\* how many calls are made on a function that is driven on its own
MaxCalls == 3

-----------------------------------------------------------------------------
(* Python values.                                                          *)

None == "None"
\* None where the other values are integers (int | None)
NoneInt == 0 - 1
\* the absent path, where the other values are paths
NoPath == [parent |-> "", name |-> <<>>]
\* the outcome of a call that raised instead of returning
Raised == "raise"

-----------------------------------------------------------------------------
(* Characters and strings (str is a sequence of characters).               *)

Ord(c) ==
    CASE c = "." -> 46
      [] c = "0" -> 48 [] c = "1" -> 49 [] c = "2" -> 50 [] c = "3" -> 51
      [] c = "4" -> 52 [] c = "5" -> 53 [] c = "6" -> 54 [] c = "7" -> 55
      [] c = "8" -> 56 [] c = "9" -> 57
      [] c = "A" -> 65 [] c = "B" -> 66
      [] c = "_" -> 95
      [] c = "a" -> 97 [] c = "b" -> 98 [] c = "g" -> 103 [] c = "h" -> 104
      [] c = "j" -> 106 [] c = "l" -> 108 [] c = "p" -> 112

IsDigit(c) == Ord(c) >= 48 /\ Ord(c) <= 57

LowerChar(c) ==
    CASE c = "A" -> "a"
      [] c = "B" -> "b"
      [] OTHER -> c

\* str.lower()
Lower(s) == [i \in 1..Len(s) |-> LowerChar(s[i])]

DigitChar(d) ==
    CASE d = 0 -> "0" [] d = 1 -> "1" [] d = 2 -> "2" [] d = 3 -> "3"
      [] d = 4 -> "4" [] d = 5 -> "5" [] d = 6 -> "6" [] d = 7 -> "7"
      [] d = 8 -> "8" [] d = 9 -> "9"

RECURSIVE Str(_)
\* str(n) for n >= 0, as the f-string formats counter
Str(n) ==
    IF n < 10 THEN <<DigitChar(n)>>
    ELSE Str(n \div 10) \o <<DigitChar(n % 10)>>

RECURSIVE IntOf(_)
\* int(s) for a non-empty string of digits
IntOf(s) ==
    IF Len(s) = 1 THEN Ord(s[1]) - 48
    ELSE 10 * IntOf(SubSeq(s, 1, Len(s) - 1)) + (Ord(s[Len(s)]) - 48)

RECURSIVE StrLess(_, _)
\* s < t for strings: lexicographic by code point
StrLess(s, t) ==
    IF t = <<>> THEN FALSE
    ELSE IF s = <<>> THEN TRUE
    ELSE IF Ord(s[1]) # Ord(t[1]) THEN Ord(s[1]) < Ord(t[1])
    ELSE StrLess(Tail(s), Tail(t))

\* str.rfind("."), 1-based, 0 when there is no dot
RFindDot(s) ==
    LET hits == {i \in 1..Len(s) : s[i] = "."}
    IN IF hits = {} THEN 0 ELSE CHOOSE i \in hits : \A j \in hits : j <= i

\* PurePath.suffix: the last dot and what follows, unless the dot is the first
\* or the last character of the name
Suffix(name) ==
    LET i == RFindDot(name)
    IN IF 1 < i /\ i < Len(name) THEN SubSeq(name, i, Len(name)) ELSE <<>>

\* PurePath.stem
Stem(name) ==
    LET i == RFindDot(name)
    IN IF 1 < i /\ i < Len(name) THEN SubSeq(name, 1, i - 1) ELSE name

\* dest / name
Join(dir, name) == [parent |-> dir, name |-> name]

-----------------------------------------------------------------------------
(* get_suffix_number and select_keeper.                                    *)

\* re.search(r"_(\d+)$", stem): the digits of the match, <<>> when no match
SuffixMatch(stem) ==
    LET starts == {k \in 1..(Len(stem) - 1) :
                      /\ stem[k] = "_"
                      /\ \A i \in (k + 1)..Len(stem) : IsDigit(stem[i])}
    IN IF starts = {} THEN <<>>
       ELSE LET k == CHOOSE k \in starts : \A j \in starts : k <= j
            IN SubSeq(stem, k + 1, Len(stem))

get_suffix_number(filename) ==
    LET match == SuffixMatch(Stem(filename))
    IN IF match # <<>> THEN IntOf(match) ELSE NoneInt

\* a sort key that ranks suffixed names first
sort_key_suffix_first(path) ==
    LET name == path.name
        suffix_num == get_suffix_number(name)
        has_suffix == IF suffix_num = NoneInt THEN 1 ELSE 0
    IN <<has_suffix, Len(name), Lower(name)>>

\* a sort key that ranks longer names first
sort_key_longest_first(path) ==
    LET name == path.name
        suffix_num == get_suffix_number(name)
        has_suffix == IF suffix_num = NoneInt THEN 0 ELSE 1
    IN <<has_suffix, 0 - Len(name), Lower(name)>>

sort_key(path) ==
    LET name == path.name
        suffix_num == get_suffix_number(name)
        has_suffix == IF suffix_num = NoneInt THEN 0 ELSE 1
    IN <<has_suffix, Len(name), Lower(name)>>

\* k1 < k2 for the tuples sort_key returns
KeyLess(k1, k2) ==
    IF k1[1] # k2[1] THEN k1[1] < k2[1]
    ELSE IF k1[2] # k2[2] THEN k1[2] < k2[2]
    ELSE StrLess(k1[3], k2[3])

\* one step of a stable sort: x goes before the first element whose key is
\* greater than its own, hence after every element with an equal key
InsertSorted(sorted, x) ==
    LET later == {i \in 1..Len(sorted) : KeyLess(sort_key(x), sort_key(sorted[i]))}
        at == IF later = {} THEN Len(sorted) + 1
              ELSE CHOOSE i \in later : \A j \in later : i <= j
    IN SubSeq(sorted, 1, at - 1) \o <<x>> \o SubSeq(sorted, at, Len(sorted))

RECURSIVE Sorted(_)
\* sorted(file_group, key=sort_key): stable
Sorted(s) ==
    IF s = <<>> THEN <<>>
    ELSE InsertSorted(Sorted(SubSeq(s, 1, Len(s) - 1)), s[Len(s)])

\* sorted_files[0], sorted_files[0:]: the keeper stays among the duplicates
select_keeper_keeps_all(group) ==
    LET sorted_files == Sorted(group)
    IN [keeper |-> Head(sorted_files), duplicates |-> sorted_files]

select_keeper(group) ==
    LET sorted_files == Sorted(group)
    IN [keeper |-> Head(sorted_files), duplicates |-> Tail(sorted_files)]

-----------------------------------------------------------------------------
(* The file system the run works on.                                       *)

\* directories: the root given on the command line, a subdirectory of it,
\* and a directory outside the root that does not exist when the run starts
Root == "root"
Sub == "root/sub"
Trash == "trash"

N_a == <<"a", ".", "j">>
N_A == <<"A", ".", "j">>
N_bb == <<"b", "b", ".", "j">>
N_a_1 == <<"a", "_", "1", ".", "j">>
N_a_2 == <<"a", "_", "2", ".", "j">>
N_a_b == <<"a", "_", "b", ".", "j">>
N_1 == <<"_", "1">>
N_a_1_b == <<"a", "_", "1", ".", "b", ".", "j">>
N_a_1_1 == <<"a", "_", "1", "_", "1", ".", "j">>
N_Alpha == <<"A", "l", "p", "h", "a", ".", "j", "p", "g">>
N_alpha == <<"a", "l", "p", "h", "a", ".", "j", "p", "g">>

N_sub == <<"s", "u", "b">>
N_root == <<"r", "o", "o", "t">>

\* the path under which a directory is listed in its parent
DirEntry(directory) ==
    IF directory = Sub THEN Join(Root, N_sub) ELSE [parent |-> ".", name |-> N_root]

\* the paths that may exist under the root when the run starts
TreePaths ==
    {Join(Root, N_a), Join(Root, N_a_1), Join(Sub, N_a_1), Join(Sub, N_a_1_1)}

\* file contents (bytes); st_size is the length
Contents == {"1", "22"}

Algorithms == {"md5", "sha256"}

\* hashlib.new(algorithm) over the whole content, hexdigest() (first 8 digits)
HexDigest(algorithm, content) ==
    CASE algorithm = "md5" /\ content = "1" -> "c4ca4238"
      [] algorithm = "md5" /\ content = "22" -> "b6d767d2"
      [] algorithm = "sha256" /\ content = "1" -> "6b86b273"
      [] algorithm = "sha256" /\ content = "22" -> "785f3ec7"

\* Path.exists() / open() succeed on these
Exists(p) == p \in DOMAIN fs.files

\* Path.exists() on a directory argument: a directory, or a regular file or
\* a symbolic link to one, of that name
root_exists(directory) ==
    \/ directory \in fs.dirs
    \/ DirEntry(directory) \in DOMAIN fs.files

\* Path.is_dir() on a directory argument
root_is_dir(directory) == directory \in fs.dirs

\* Path.is_file(): a regular file, or a symbolic link that points to one
\* (is_file follows symbolic links)
is_file(p) ==
    \/ p \in DOMAIN fs.files
    \/ p \in DOMAIN fs.links /\ fs.links[p] \in DOMAIN fs.files

\* the path open() reads when given p
Resolve(p) == IF p \in DOMAIN fs.links THEN fs.links[p] ELSE p

\* unlink() and rename() act on the entry itself, be it a regular file or a
\* symbolic link (dangling or not)
LExists(p) == p \in DOMAIN fs.files \cup DOMAIN fs.links

Unlink(fls, p) == [q \in DOMAIN fls \ {p} |-> fls[q]]

\* os.rename(src, dst): dst is replaced silently if it exists
Rename(fls, src, dst) ==
    [q \in (DOMAIN fls \ {src}) \cup {dst} |-> IF q = dst THEN fls[src] ELSE fls[q]]

\* the paths on which Path.exists() is true in file system f: regular files,
\* and symbolic links whose target is a regular file or a directory
Visible(f) ==
    [p \in {q \in DOMAIN f.files \cup DOMAIN f.links :
                \/ q \in DOMAIN f.files
                \/ f.links[q] \in DOMAIN f.files
                \/ f.links[q] \in {DirEntry(d) : d \in f.dirs}} |-> TRUE]

\* Path.unlink() on an entry of f
RemoveEntry(f, p) == [f EXCEPT !.files = Unlink(@, p), !.links = Unlink(@, p)]

\* Path.rename() of the entry src of f to dst: an entry at dst is replaced
MoveEntry(f, src, dst) ==
    IF src \in DOMAIN f.files
    THEN [f EXCEPT !.files = Rename(@, src, dst), !.links = Unlink(@, dst)]
    ELSE [f EXCEPT !.links = Rename(@, src, dst), !.files = Unlink(@, dst)]

\* the permutations of a finite set, as sequences
Perms(S) ==
    {f \in [1..Cardinality(S) -> S] : \A i, j \in 1..Cardinality(S) : f[i] = f[j] => i = j}

\* every element of sequence s, as a set
Range(s) == {s[i] : i \in 1..Len(s)}

-----------------------------------------------------------------------------
(* hash_file, scan_directory, group_by_hash.                               *)

\* hash_file that lets the OSError escape (reported as "raise")
hash_file_raises(path, algorithm) ==
    IF Exists(Resolve(path)) /\ Resolve(path) \notin unreadable
    THEN HexDigest(algorithm, fs.files[Resolve(path)].content)
    ELSE Raised

\* the digest, or None when open()/read() raises OSError
hash_file(path, algorithm) ==
    IF Exists(Resolve(path)) /\ Resolve(path) \notin unreadable
    THEN HexDigest(algorithm, fs.files[Resolve(path)].content)
    ELSE None

\* what directory.iterdir() (recursive = FALSE) or directory.rglob("*")
\* (recursive = TRUE) yields: regular files, symbolic links and directories
Entries(directory, recursive) ==
    {p \in DOMAIN fs.files \cup DOMAIN fs.links \cup {DirEntry(d) : d \in fs.dirs} :
        \/ p.parent = directory
        \/ recursive /\ directory = Root /\ p.parent = Sub /\ Sub \in fs.dirs}

\* scan_directory that descends into subdirectories whatever the flag
scan_directory_always_recursive(directory, recursive) ==
    Perms({p \in Entries(directory, TRUE) : is_file(p)})

\* the files scan_directory returns, in the order the OS lists them
scan_directory(directory, recursive) ==
    LET found == {p \in Entries(directory, recursive) : is_file(p)}
    IN Perms(found)

\* hash_groups[file_hash].append(path) that files a path under the first key
dict_append_first(hash_groups, file_hash, path) ==
    IF hash_groups = <<>> THEN <<[hash |-> file_hash, paths |-> <<path>>]>>
    ELSE [hash_groups EXCEPT ![1].paths = Append(@, path)]

\* hash_groups[file_hash].append(path) on a defaultdict(list): dicts keep the
\* insertion order of their keys
dict_append(hash_groups, file_hash, path) ==
    IF \E k \in 1..Len(hash_groups) : hash_groups[k].hash = file_hash
    THEN [k \in 1..Len(hash_groups) |->
            IF hash_groups[k].hash = file_hash
            THEN [hash_groups[k] EXCEPT !.paths = Append(@, path)]
            ELSE hash_groups[k]]
    ELSE Append(hash_groups, [hash |-> file_hash, paths |-> <<path>>])

\* the final comprehension without its len(paths) > 1 filter
keep_all_groups(hash_groups) == hash_groups

\* {h: paths for h, paths in hash_groups.items() if len(paths) > 1}
only_duplicate_groups(hash_groups) ==
    LET keep == {k \in 1..Len(hash_groups) : Len(hash_groups[k].paths) > 1}
        Nth(n) == CHOOSE k \in keep : Cardinality({j \in keep : j < k}) = n - 1
    IN [n \in 1..Cardinality(keep) |-> hash_groups[Nth(n)]]

RECURSIVE hash_loop(_, _, _)
\* the for loop of group_by_hash over files[i..]: the state of hash_groups,
\* the warnings printed and whether an exception ended the loop
hash_loop(fl, algorithm, st) ==
    IF fl = <<>> \/ st.raised THEN st
    ELSE LET path == Head(fl)
             file_hash == hash_file(path, algorithm)
         IN hash_loop(Tail(fl), algorithm,
               [hash_groups |-> IF file_hash # Raised /\ file_hash # None /\ file_hash # ""
                                THEN dict_append(st.hash_groups, file_hash, path)
                                ELSE st.hash_groups,
                hashed |-> Append(st.hashed, path),
                warnings |-> IF file_hash = None
                             THEN Append(st.warnings, [msg |-> "Warning: Cannot read", path |-> path])
                             ELSE st.warnings,
                raised |-> file_hash = Raised])

group_by_hash(fl, algorithm) ==
    LET end == hash_loop(fl, algorithm,
                   [hash_groups |-> <<>>, hashed |-> <<>>, warnings |-> <<>>, raised |-> FALSE])
    IN [groups |-> only_duplicate_groups(end.hash_groups),
        hashed |-> end.hashed,
        warnings |-> end.warnings,
        raised |-> end.raised]

-----------------------------------------------------------------------------
(* format_size and the actions of process_duplicates.                      *)

\* f"{x:.1f}" of x = num/den, in tenths: round half to even
RoundTenths(num, den) ==
    LET q == (num * 10) \div den
        r == (num * 10) % den
    IN IF 2 * r > den \/ (2 * r = den /\ q % 2 = 1) THEN q + 1 ELSE q

RECURSIVE format_loop(_, _, _)
format_loop(num, den, units) ==
    IF units = <<>> THEN [tenths |-> RoundTenths(num, den), unit |-> "TB"]
    ELSE IF num < 1024 * den THEN [tenths |-> RoundTenths(num, den), unit |-> Head(units)]
    ELSE format_loop(num, den * 1024, Tail(units))

format_size(size_bytes) == format_loop(size_bytes, 1, <<"B", "KB", "MB", "GB">>)

\* the command lines: --delete and --move are mutually exclusive
Args ==
    {[delete |-> FALSE, move |-> None], [delete |-> TRUE, move |-> None]}
    \cup {[delete |-> FALSE, move |-> d] : d \in {Trash, Sub}}

\* main, "Determine action"
\* an action selector whose default is "delete"
determine_action_default_delete(parsed) ==
    IF parsed.move # None THEN "move" ELSE "delete"

determine_action(parsed) ==
    IF parsed.delete THEN "delete"
    ELSE IF parsed.move # None THEN "move"
    ELSE "dry-run"

\* the target is dest / dup.name whether or not it exists
first_target(dst, dup, target, counter, fls) == target

RECURSIVE free_target_skips(_, _, _, _, _)
RECURSIVE free_target(_, _, _, _, _)
\* the while loop with the counter incremented before the name is built
free_target_skips(dst, dup, target, counter, fls) ==
    IF target \in DOMAIN fls
    THEN free_target_skips(dst, dup,
             Join(dst, Stem(dup.name) \o <<"_">> \o Str(counter + 1) \o Suffix(dup.name)),
             counter + 1, fls)
    ELSE target

\* the while target.exists() loop
free_target(dst, dup, target, counter, fls) ==
    IF target \in DOMAIN fls
    THEN free_target(dst, dup,
             Join(dst, Stem(dup.name) \o <<"_">> \o Str(counter) \o Suffix(dup.name)),
             counter + 1, fls)
    ELSE target

\* try blocks whose unlink reports success and leaves the file in place
try_body_keeps_file(act, dst, dup) ==
    IF act = "delete"
    THEN [fs |-> fs,
          calls |-> <<[op |-> "unlink", path |-> dup, target |-> NoPath, ok |-> TRUE]>>,
          raised |-> FALSE]
    ELSE [fs |-> fs, calls |-> <<>>, raised |-> FALSE]

\* what the try blocks of "for dup in duplicates" do to the file system, the
\* calls they issue, and whether an OSError was raised in them
try_body(act, dst, dup) ==
    IF act = "delete"
    THEN IF LExists(dup)
         THEN [fs |-> RemoveEntry(fs, dup),
               calls |-> <<[op |-> "unlink", path |-> dup, target |-> NoPath, ok |-> TRUE]>>,
               raised |-> FALSE]
         ELSE [fs |-> fs,
               calls |-> <<[op |-> "unlink", path |-> dup, target |-> NoPath, ok |-> FALSE]>>,
               raised |-> TRUE]
    ELSE IF act = "move" /\ dst # None
    THEN LET made == [fs EXCEPT !.dirs = @ \cup {dst}]
             target == free_target(dst, dup, Join(dst, dup.name), 1, Visible(made))
         IN IF LExists(dup)
            THEN [fs |-> MoveEntry(made, dup, target),
                  calls |-> <<[op |-> "rename", path |-> dup, target |-> target, ok |-> TRUE]>>,
                  raised |-> FALSE]
            ELSE [fs |-> made,
                  calls |-> <<[op |-> "rename", path |-> dup, target |-> target, ok |-> FALSE]>>,
                  raised |-> TRUE]
    ELSE [fs |-> fs, calls |-> <<>>, raised |-> FALSE]

\* the try blocks without their except clauses: the OSError escapes
apply_action_no_except(act, dst, dup) ==
    LET r == try_body(act, dst, dup)
    IN [fs |-> r.fs, calls |-> r.calls, errors |-> <<>>, raised |-> r.raised]

\* the try blocks run a second time when the first attempt raised
apply_action_retries(act, dst, dup) ==
    LET r == try_body(act, dst, dup)
    IN [fs |-> r.fs,
        calls |-> IF r.raised THEN r.calls \o r.calls ELSE r.calls,
        errors |-> IF r.raised
                   THEN <<[msg |-> IF act = "delete" THEN "Error deleting" ELSE "Error moving",
                           path |-> dup]>>
                   ELSE <<>>,
        raised |-> FALSE]

\* the body of "for dup in duplicates" after the counters: except OSError
\* prints the error and the loop goes on
apply_action(act, dst, dup) ==
    LET r == try_body(act, dst, dup)
    IN [fs |-> r.fs,
        calls |-> r.calls,
        errors |-> IF r.raised
                   THEN <<[msg |-> IF act = "delete" THEN "Error deleting" ELSE "Error moving",
                           path |-> dup]>>
                   ELSE <<>>,
        raised |-> FALSE]

action_verb(act) ==
    CASE act = "dry-run" -> "would be removed"
      [] act = "delete" -> "removed"
      [] act = "move" -> "moved"


-----------------------------------------------------------------------------
(* The run: main.                                                          *)

\* the validation of args.directory that only looks at exists()
validate_exists_only(directory) ==
    IF ~root_exists(directory) THEN "Error: Directory does not exist" ELSE None

\* main, lines 248-255: the error the validation of args.directory prints,
\* None when it passes
validate(directory) ==
    IF ~root_exists(directory) THEN "Error: Directory does not exist"
    ELSE IF ~root_is_dir(directory) THEN "Error: Not a directory"
    ELSE None

\* a test of "not groups" that never takes the early return
no_duplicates_never(found) == FALSE

\* main, line 270: not groups
no_duplicates(found) == found = <<>>

\* the command line before main has read --delete / --move
NoArgs == [delete |-> FALSE, move |-> "unread"]

\* the other scripts are not running
ScriptsIdle ==
    /\ activities = <<>> /\ append_call = None
    /\ existing_names = {} /\ returned = <<>>
    /\ history_file = <<>> /\ settings = None /\ passes = <<>>
    /\ calls = 0

Idle ==
    /\ ScriptsIdle
    /\ args = NoArgs /\ args_algorithm = None
    /\ files = <<>> /\ hashed = <<>> /\ groups = <<>>
    /\ action = None /\ dest = None
    /\ gi = 0 /\ di = 0
    /\ keeper = NoPath /\ duplicates = <<>>
    /\ file_size = 0 /\ total_removed = 0 /\ total_bytes_freed = 0
    /\ stdout = <<>> /\ stderr = <<>> /\ syscalls = <<>>
    /\ vanished = {}
    /\ exit_status = NoneInt

\* the root is a directory holding regular files, or does not exist, or is
\* a regular file
Init ==
    /\ pc = "main"
    /\ \/ \E present \in SUBSET TreePaths : \E content \in [present -> Contents] :
             fs = [files |-> [p \in present |-> [origin |-> p, content |-> content[p]]],
                   dirs |-> {Root, Sub}, links |-> <<>>]
       \/ fs = [files |-> <<>>, dirs |-> {}, links |-> <<>>]
       \/ \E c \in Contents :
             fs = [files |-> [p \in {DirEntry(Root)} |-> [origin |-> p, content |-> c]],
                   dirs |-> {}, links |-> <<>>]
    /\ fs0 = fs
    /\ unreadable \in {U \in SUBSET (DOMAIN fs.files \cap TreePaths) : Cardinality(U) <= MaxFaults}
    /\ args_recursive \in BOOLEAN
    /\ file_group = <<>>
    /\ Idle

\* main, lines 248-255
Validate ==
    /\ pc = "main"
    /\ IF validate(Root) = None
       THEN pc' = "scanning" /\ UNCHANGED <<stderr, exit_status>>
       ELSE /\ stderr' = Append(stderr, [msg |-> validate(Root), path |-> DirEntry(Root)])
            /\ pc' = "rejected"
            /\ exit_status' = 1
    /\ UNCHANGED <<scripts, fs, fs0, unreadable, vanished, args, args_algorithm, args_recursive,
                   files, hashed, groups, action, dest, gi, file_group, keeper, duplicates,
                   di, file_size, total_removed, total_bytes_freed, stdout, syscalls>>

\* main, lines 257-263
Scan ==
    /\ pc = "scanning"
    /\ \E found \in scan_directory(Root, args_recursive) :
          /\ files' = found
          /\ IF found = <<>>
             THEN /\ stdout' = Append(stdout, [line |-> "No files found."])
                  /\ pc' = "done"
                  /\ exit_status' = 0
             ELSE pc' = "hashing" /\ UNCHANGED <<stdout, exit_status>>
    /\ UNCHANGED <<scripts, fs, fs0, unreadable, vanished, args, args_algorithm, args_recursive,
                   hashed, groups, action, dest, gi, file_group, keeper, duplicates, di,
                   file_size, total_removed, total_bytes_freed, stderr, syscalls>>

\* main, line 268: the whole of group_by_hash
GroupByHash ==
    /\ pc = "hashing"
    /\ \E alg \in Algorithms :
          LET r == group_by_hash(files, alg)
          IN /\ args_algorithm' = alg
             /\ hashed' = r.hashed
             /\ stderr' = stderr \o r.warnings
             /\ IF r.raised
                THEN pc' = "crashed" /\ exit_status' = 1 /\ UNCHANGED groups
                ELSE pc' = "grouped" /\ groups' = r.groups /\ UNCHANGED exit_status
    /\ UNCHANGED <<scripts, fs, fs0, unreadable, vanished, args, args_recursive, files, action,
                   dest, gi, file_group, keeper, duplicates, di, file_size, total_removed,
                   total_bytes_freed, stdout, syscalls>>

\* main, lines 270-272
NoDuplicates ==
    /\ pc = "grouped"
    /\ no_duplicates(groups)
    /\ stdout' = Append(stdout, [line |-> "No duplicates found."])
    /\ pc' = "done"
    /\ exit_status' = 0
    /\ UNCHANGED <<scripts, fs, fs0, unreadable, vanished, args, args_algorithm, args_recursive,
                   files, hashed, groups, action, dest, gi, file_group, keeper, duplicates,
                   di, file_size, total_removed, total_bytes_freed, stderr, syscalls>>

\* main, lines 274-283, and process_duplicates, lines 156-157
Dispatch ==
    /\ pc = "grouped"
    /\ ~no_duplicates(groups)
    /\ \E a \in Args :
          /\ args' = a
          /\ action' = determine_action(a)
          /\ dest' = a.move
    /\ total_removed' = 0
    /\ total_bytes_freed' = 0
    /\ gi' = 1
    /\ pc' = "for_group"
    /\ UNCHANGED <<scripts, fs, fs0, unreadable, vanished, args_algorithm, args_recursive, files, hashed, groups,
                   file_group, keeper, duplicates, di, file_size, stdout, stderr,
                   syscalls, exit_status>>

\* somebody else removes a file of a duplicate group between grouping and
\* resolution
Vanish ==
    /\ pc = "for_group"
    /\ gi = 1
    /\ Cardinality(unreadable) + Cardinality(vanished) < MaxFaults
    /\ \E k \in 1..Len(groups) : \E p \in Range(groups[k].paths) :
          /\ LExists(p)
          /\ fs' = RemoveEntry(fs, p)
          /\ vanished' = vanished \cup {p}
    /\ UNCHANGED <<scripts, pc, fs0, unreadable, args, args_algorithm, args_recursive, files, hashed, groups, action, dest, gi,
                   file_group, keeper, duplicates, di, file_size, total_removed,
                   total_bytes_freed, stdout, stderr, syscalls, exit_status>>

\* process_duplicates, lines 159-164: the head of one iteration over groups
ForGroup ==
    /\ pc = "for_group"
    /\ gi <= Len(groups)
    /\ LET sel == select_keeper(groups[gi].paths)
       IN /\ file_group' = groups[gi].paths
          /\ keeper' = sel.keeper
          /\ duplicates' = sel.duplicates
          /\ IF Exists(Resolve(sel.keeper))
             THEN /\ file_size' = Len(fs.files[Resolve(sel.keeper)].content)
                  /\ pc' = "for_dup"
                  /\ di' = 1
                  /\ UNCHANGED <<stderr, exit_status>>
             ELSE /\ pc' = "crashed"
                  /\ exit_status' = 1
                  /\ stderr' = Append(stderr, [msg |-> "Traceback: FileNotFoundError",
                                               path |-> sel.keeper])
                  /\ UNCHANGED <<file_size, di>>
    /\ UNCHANGED <<scripts, fs, fs0, unreadable, vanished, args, args_algorithm, args_recursive, files, hashed,
                   groups, action, dest, gi, total_removed, total_bytes_freed, stdout,
                   syscalls>>

\* one iteration over duplicates with the counters incremented after the
\* attempt, and only when it succeeded
ForDupCountsSuccesses ==
    /\ pc = "for_dup"
    /\ LET dup == duplicates[di]
           r == apply_action(action, dest, dup)
           succeeded == r.errors = <<>>
       IN /\ total_removed' = IF succeeded THEN total_removed + 1 ELSE total_removed
          /\ total_bytes_freed' = IF succeeded THEN total_bytes_freed + file_size
                                                ELSE total_bytes_freed
          /\ fs' = r.fs
          /\ syscalls' = syscalls \o r.calls
          /\ stderr' = stderr \o r.errors
          /\ IF di < Len(duplicates)
             THEN di' = di + 1 /\ UNCHANGED <<pc, gi, exit_status>>
             ELSE pc' = "for_group" /\ gi' = gi + 1 /\ UNCHANGED <<di, exit_status>>
    /\ UNCHANGED <<scripts, fs0, unreadable, vanished, args, args_algorithm, args_recursive,
                   files, hashed, groups, action, dest, file_group, keeper, duplicates,
                   file_size, stdout>>

\* process_duplicates, lines 166-190: one iteration over duplicates
ForDup ==
    /\ pc = "for_dup"
    /\ LET dup == duplicates[di]
           r == apply_action(action, dest, dup)
       IN /\ total_removed' = total_removed + 1
          /\ total_bytes_freed' = total_bytes_freed + file_size
          /\ fs' = r.fs
          /\ syscalls' = syscalls \o r.calls
          /\ IF r.raised
             THEN /\ pc' = "crashed"
                  /\ exit_status' = 1
                  /\ stderr' = Append(stderr, [msg |-> "Traceback: FileNotFoundError",
                                               path |-> dup])
                  /\ UNCHANGED <<di, gi>>
             ELSE /\ stderr' = stderr \o r.errors
                  /\ IF di < Len(duplicates)
                     THEN di' = di + 1 /\ UNCHANGED <<pc, gi, exit_status>>
                     ELSE pc' = "for_group" /\ gi' = gi + 1 /\ UNCHANGED <<di, exit_status>>
    /\ UNCHANGED <<scripts, fs0, unreadable, vanished, args, args_algorithm, args_recursive, files, hashed, groups,
                   action, dest, file_group, keeper, duplicates, file_size, stdout>>

\* the end of process_duplicates followed by a new scan
SummaryThenRescan ==
    /\ pc = "for_group"
    /\ gi > Len(groups)
    /\ stdout' = Append(stdout, [groups |-> Len(groups),
                                 files |-> total_removed,
                                 verb |-> action_verb(action),
                                 freed |-> format_size(total_bytes_freed)])
    /\ pc' = "scanning"
    /\ UNCHANGED <<scripts, fs, fs0, unreadable, vanished, args, args_algorithm, args_recursive,
                   files, hashed, groups, action, dest, gi, file_group, keeper, duplicates,
                   di, file_size, total_removed, total_bytes_freed, stderr, syscalls,
                   exit_status>>

\* process_duplicates, lines 192-199, and main, line 285
Summary ==
    /\ pc = "for_group"
    /\ gi > Len(groups)
    /\ stdout' = Append(stdout, [groups |-> Len(groups),
                                 files |-> total_removed,
                                 verb |-> action_verb(action),
                                 freed |-> format_size(total_bytes_freed)])
    /\ pc' = "done"
    /\ exit_status' = 0
    /\ UNCHANGED <<scripts, fs, fs0, unreadable, vanished, args, args_algorithm, args_recursive, files, hashed,
                   groups, action, dest, gi, file_group, keeper, duplicates, di,
                   file_size, total_removed, total_bytes_freed, stderr, syscalls>>

Next ==
    \/ Validate
    \/ Scan
    \/ GroupByHash
    \/ NoDuplicates
    \/ Dispatch
    \/ Vanish
    \/ ForGroup
    \/ ForDup
    \/ Summary

Spec == Init /\ [][Next]_vars

-----------------------------------------------------------------------------
(* select_keeper on its own, over every short list of distinct paths.      *)

KeeperNames == {N_a, N_A, N_bb, N_a_1, N_a_2, N_a_b, N_1, N_a_1_b, N_Alpha, N_alpha}

KeeperPaths ==
    {Join(Root, n) : n \in KeeperNames} \cup {Join(Sub, N_a), Join(Sub, N_a_1)}

\* the lists of distinct paths of length 1..MaxGroup
FileGroups ==
    {g \in UNION {[1..n -> KeeperPaths] : n \in 1..MaxGroup} :
        \A i, j \in 1..Len(g) : g[i] = g[j] => i = j}

KeeperInit ==
    /\ pc = "select_keeper"
    /\ fs = [files |-> <<>>, dirs |-> {Root, Sub}, links |-> <<>>]
    /\ fs0 = fs
    /\ unreadable = {}
    /\ args_recursive = FALSE
    /\ Idle
    /\ file_group \in FileGroups

\* process_duplicates, line 160: keeper, duplicates = select_keeper(file_group)
SelectKeeper ==
    /\ pc = "select_keeper"
    /\ LET sel == select_keeper(file_group)
       IN keeper' = sel.keeper /\ duplicates' = sel.duplicates
    /\ pc' = "selected"
    /\ UNCHANGED <<scripts, fs, fs0, unreadable, vanished, args, args_algorithm, args_recursive, files, hashed,
                   groups, action, dest, gi, file_group, di, file_size, total_removed,
                   total_bytes_freed, stdout, stderr, syscalls, exit_status>>

KeeperNext == SelectKeeper

KeeperSpec == KeeperInit /\ [][KeeperNext]_vars

-----------------------------------------------------------------------------
(* Claims about select_keeper, checked under KeeperSpec.                   *)

\* the rearrangements of a list
Rearrangements(g) ==
    {[i \in 1..Len(g) |-> g[f[i]]] : f \in Perms(1..Len(g))}

\* the stem of the name ends in "_" followed by one or more digits
EndsInNumericSuffix(name) ==
    LET stem == Stem(name)
    IN \E k \in 1..(Len(stem) - 1) :
          /\ stem[k] = "_"
          /\ \A i \in (k + 1)..Len(stem) : IsDigit(stem[i])

\* C1: keeper selection does not depend on the order of the group: every
\* rearrangement of file_group, given to select_keeper, yields the keeper
\* that file_group itself yields.
ClaimC1 ==
    pc = "selected" =>
        \A g \in Rearrangements(file_group) : select_keeper(g).keeper = keeper

\* C10: when the group holds at least one file whose stem does not end in
\* "_<digits>", the keeper is such a file.
ClaimC10 ==
    pc = "selected" =>
        ((\E i \in 1..Len(file_group) : ~EndsInNumericSuffix(file_group[i].name))
            => ~EndsInNumericSuffix(keeper.name))

\* an unsuffixed keeper was chosen over a suffixed file that has a shorter
\* name, sorts before it alphabetically and came first in the group
WitnessC10 ==
    /\ pc = "selected"
    /\ ~EndsInNumericSuffix(keeper.name)
    /\ EndsInNumericSuffix(file_group[1].name)
    /\ Len(file_group[1].name) < Len(keeper.name)
    /\ StrLess(Lower(file_group[1].name), Lower(keeper.name))

-----------------------------------------------------------------------------
(* Claims about group_by_hash, checked under Spec.                         *)

\* open() and read() succeed on p (no file is removed before the groups
\* are built)
Readable(p) == p \in DOMAIN fs0.files /\ p \notin unreadable

\* the digest hashing p yields in this run
DigestOf(p) == HexDigest(args_algorithm, fs0.files[p].content)

\* the groups a path is listed in, once per listing
Listings(p) ==
    {<<k, i>> \in (1..Len(groups)) \X (1..Len(files)) :
        i <= Len(groups[k].paths) /\ groups[k].paths[i] = p}

\* the position of a scanned path in the scan
ScanIndex(p) == CHOOSE i \in 1..Len(files) : files[i] = p

Grouped == pc \notin {"scanning", "hashing"} /\ args_algorithm # None

\* C7: every group group_by_hash returns has at least two members, and they
\* are two different readable files with the group's digest.
ClaimC7 ==
    \A k \in 1..Len(groups) :
        /\ Len(groups[k].paths) >= 2
        /\ Cardinality({p \in Range(files) :
                           Readable(p) /\ DigestOf(p) = groups[k].hash}) >= 2

\* a digest with exactly one readable file was dropped while another digest
\* made a group, with an unreadable file among the scanned ones
WitnessC7 ==
    /\ pc = "grouped"
    /\ groups # <<>>
    /\ \E p \in Range(files) :
          /\ Readable(p)
          /\ \A q \in Range(files) \ {p} : Readable(q) => DigestOf(q) # DigestOf(p)
    /\ \E p \in Range(files) : ~Readable(p)

\* C8: two scanned files are in the same group exactly when both are
\* readable and have the same digest; no file is listed twice; and a group
\* lists its files in scan order.
ClaimC8 ==
    Grouped =>
        /\ \A p, q \in Range(files) :
              p # q =>
                 ((\E k \in 1..Len(groups) :
                      p \in Range(groups[k].paths) /\ q \in Range(groups[k].paths))
                  <=> (Readable(p) /\ Readable(q) /\ DigestOf(p) = DigestOf(q)))
        /\ \A k \in 1..Len(groups) : Range(groups[k].paths) \subseteq Range(files)
        /\ \A p \in Range(files) : Cardinality(Listings(p)) <= 1
        /\ \A k \in 1..Len(groups) : \A i, j \in 1..Len(groups[k].paths) :
              i < j => ScanIndex(groups[k].paths[i]) < ScanIndex(groups[k].paths[j])

\* two groups whose files alternate in the scan
WitnessC8 ==
    /\ pc = "grouped"
    /\ Len(groups) = 2
    /\ files[1] \in Range(groups[1].paths)
    /\ files[2] \in Range(groups[2].paths)
    /\ files[3] \in Range(groups[1].paths)

\* the scanned files that can be read, in scan order
ReadableFiles == SelectSeq(files, Readable)

\* C9: an unreadable file does not abort the run: every scanned file is
\* handed to hash_file, each unreadable one is reported once and is in no
\* group, and the groups are those of the readable files alone.
ClaimC9 ==
    pc \notin {"scanning", "hashing"} =>
        /\ hashed = files
        /\ \A p \in Range(files) :
              ~Readable(p) =>
                 /\ \A k \in 1..Len(groups) : p \notin Range(groups[k].paths)
                 /\ Cardinality({i \in 1..Len(stderr) :
                        stderr[i] = [msg |-> "Warning: Cannot read", path |-> p]}) = 1
        /\ pc = "grouped" => groups = group_by_hash(ReadableFiles, args_algorithm).groups

\* the first file scanned was unreadable and the files after it made a group
WitnessC9 ==
    /\ pc = "grouped"
    /\ ~Readable(files[1])
    /\ groups # <<>>

-----------------------------------------------------------------------------
(* Claims about process_duplicates, checked under Spec.                    *)

KeeperOf(k) == select_keeper(groups[k].paths).keeper
Removables(k) == Range(select_keeper(groups[k].paths).duplicates)

\* the calls issued on path p
CallsOn(p) == {i \in 1..Len(syscalls) : syscalls[i].path = p}

\* the files (identity and content) the file system holds
Held(fls) == {fls[q] : q \in DOMAIN fls}

\* the files of the start that nobody else removed
Remaining == [p \in DOMAIN fs0.files \ vanished |-> fs0.files[p]]

\* C2: in move mode no file is overwritten or lost: the files held are those
\* of the start (less the ones somebody else removed), each at one path of
\* its own; a file that was in the destination is still in the destination;
\* and a file that left its path is in the destination.
ClaimC2 ==
    action = "move" =>
        /\ Held(fs.files) = Held(Remaining)
        /\ Cardinality(DOMAIN fs.files) = Cardinality(DOMAIN Remaining)
        /\ \A p \in DOMAIN Remaining :
              p.parent = dest =>
                 \E q \in DOMAIN fs.files : q.parent = dest /\ fs.files[q] = fs0.files[p]
        /\ \A q \in DOMAIN fs.files : fs.files[q].origin # q => q.parent = dest
        /\ \A i \in 1..Len(syscalls) :
              syscalls[i].op = "rename" => syscalls[i].target.parent = dest

\* two removables with the same file name were moved into a destination that
\* held files when the run started, the second under a suffixed name
WitnessC2 ==
    /\ pc = "done"
    /\ action = "move"
    /\ \E p \in DOMAIN fs0.files : p.parent = dest
    /\ \E i, j \in 1..Len(syscalls) :
          /\ i < j
          /\ syscalls[i].ok /\ syscalls[j].ok
          /\ syscalls[i].path.name = syscalls[j].path.name
          /\ syscalls[j].target.name # syscalls[j].path.name

\* C3: with neither --delete nor --move the action is "dry-run", and a
\* dry-run issues no unlink, mkdir or rename: the file system is the one of
\* the start (less what somebody else removed).
ClaimC3 ==
    /\ (~args.delete /\ args.move = None) => action = "dry-run"
    /\ action = "dry-run" =>
          /\ syscalls = <<>>
          /\ fs.dirs = fs0.dirs
          /\ fs.files = Remaining

\* a dry-run that listed two removables and printed its summary
WitnessC3 ==
    /\ pc = "done"
    /\ ~args.delete /\ args.move = None
    /\ total_removed >= 2
    /\ stdout # <<>>

ErrorFor(call) ==
    [msg |-> IF call.op = "unlink" THEN "Error deleting" ELSE "Error moving",
     path |-> call.path]

\* C4: a failed delete or move is reported and does not stop the batch: the
\* run is never ended by one, every removable of a group the loop has left
\* behind was attempted once, and so was every removable before the current
\* one.
ClaimC4 ==
    action \in {"delete", "move"} =>
        /\ pc = "crashed" =>
              stderr[Len(stderr)] = [msg |-> "Traceback: FileNotFoundError", path |-> keeper]
        /\ pc = "done" => gi = Len(groups) + 1
        /\ \A k \in 1..Len(groups) :
              k < gi => \A d \in Removables(k) : Cardinality(CallsOn(d)) = 1
        /\ pc = "for_dup" => \A j \in 1..(di - 1) : CallsOn(duplicates[j]) # {}
        /\ \A i \in 1..Len(syscalls) :
              ~syscalls[i].ok => \E m \in 1..Len(stderr) : stderr[m] = ErrorFor(syscalls[i])

\* a group of three: the action failed on the first removable, was reported,
\* and succeeded on the second
WitnessC4 ==
    /\ pc = "done"
    /\ Len(groups) = 1
    /\ Len(syscalls) = 2
    /\ ~syscalls[1].ok
    /\ syscalls[2].ok
    /\ stderr = <<ErrorFor(syscalls[1])>>

\* the removables of group k the action succeeded on
Succeeded(k) == {i \in 1..Len(syscalls) : syscalls[i].ok /\ syscalls[i].path \in Removables(k)}

RECURSIVE BytesOfSuccesses(_)
\* keeper size times successfully processed removables, summed over groups 1..k
BytesOfSuccesses(k) ==
    IF k = 0 THEN 0
    ELSE BytesOfSuccesses(k - 1)
         + Len(fs0.files[KeeperOf(k)].content) * Cardinality(Succeeded(k))

\* C5: the summary of a delete or move run counts only the successes: the
\* files count is the number of removables deleted or moved, and bytes freed
\* is the keeper's size times that number, summed over the groups.
ClaimC5 ==
    (pc = "done" /\ action \in {"delete", "move"}) =>
        /\ stdout # <<>>
        /\ stdout[Len(stdout)].files = Cardinality({i \in 1..Len(syscalls) : syscalls[i].ok})
        /\ stdout[Len(stdout)].freed = format_size(BytesOfSuccesses(Len(groups)))

\* C6: when the keeper of a group cannot be stat'd the group is skipped with
\* a reported error, none of its removables is touched, the other groups
\* are processed and the summary is printed.
ClaimC6 ==
    (gi >= 1 /\ pc \in {"done", "crashed"}) =>
        /\ pc = "done"
        /\ stdout # <<>>
        /\ \A k \in 1..Len(groups) :
              IF KeeperOf(k) \in vanished
              THEN /\ \A d \in Removables(k) : CallsOn(d) = {}
                   /\ \E m \in 1..Len(stderr) : stderr[m].path = KeeperOf(k)
              ELSE action # "dry-run" => \A d \in Removables(k) : CallsOn(d) # {}

-----------------------------------------------------------------------------
(* More claims about select_keeper, checked under KeeperSpec.              *)

\* C11: among the files of the group in the keeper's suffix class, none has
\* a name shorter than the keeper's.
ClaimC11 ==
    pc = "selected" =>
        \A i \in 1..Len(file_group) :
            EndsInNumericSuffix(file_group[i].name) = EndsInNumericSuffix(keeper.name)
                => Len(keeper.name) <= Len(file_group[i].name)

\* the keeper was chosen over a longer name of its suffix class that came
\* first in the group and sorts before it alphabetically
WitnessC11 ==
    /\ pc = "selected"
    /\ keeper # file_group[1]
    /\ EndsInNumericSuffix(file_group[1].name) = EndsInNumericSuffix(keeper.name)
    /\ Len(keeper.name) < Len(file_group[1].name)
    /\ StrLess(Lower(file_group[1].name), Lower(keeper.name))

\* C12: for the group made of Alpha.jpg and alpha.jpg, select_keeper returns
\* Alpha.jpg as the keeper and alpha.jpg as the removable.
ClaimC12 ==
    (pc = "selected" /\ Range(file_group) = {Join(Root, N_Alpha), Join(Root, N_alpha)}) =>
        /\ keeper = Join(Root, N_Alpha)
        /\ duplicates = <<Join(Root, N_alpha)>>

\* C13: the keeper followed by the removables is a rearrangement of the
\* group, the keeper is not among the removables, and there are
\* len(group) - 1 removables.
ClaimC13 ==
    pc = "selected" =>
        /\ <<keeper>> \o duplicates \in Rearrangements(file_group)
        /\ keeper \notin Range(duplicates)
        /\ Len(duplicates) = Len(file_group) - 1

\* a group of three whose last file became the keeper
WitnessC13 ==
    /\ pc = "selected"
    /\ Len(file_group) = 3
    /\ keeper = file_group[3]
    /\ duplicates = <<file_group[1], file_group[2]>>

-----------------------------------------------------------------------------
(* The collision-safe rename, checked under Spec.                          *)

\* <dst>/<stem>_<n><ext> for the name of dup
Numbered(dst, dup, n) ==
    Join(dst, Stem(dup.name) \o <<"_">> \o Str(n) \o Suffix(dup.name))

\* C14: a removable that is moved lands in the destination under its own
\* name when the destination holds no file of that name, and otherwise under
\* <stem>_N<ext> for the smallest N >= 1 that the destination does not hold.
ClaimC14 ==
    [][(pc = "for_dup" /\ action = "move" /\ syscalls' # syscalls
            /\ syscalls'[Len(syscalls')].ok) =>
        LET dup == duplicates[di]
            call == syscalls'[Len(syscalls')]
            held == DOMAIN fs.files
        IN /\ call.op = "rename" /\ call.path = dup
           /\ call.target \in DOMAIN fs'.files
           /\ fs'.files[call.target] = fs.files[dup]
           /\ IF Join(dest, dup.name) \notin held
              THEN call.target = Join(dest, dup.name)
              ELSE \E n \in 1..Cardinality(held) :
                      /\ call.target = Numbered(dest, dup, n)
                      /\ call.target \notin held
                      /\ \A m \in 1..(n - 1) : Numbered(dest, dup, m) \in held]_vars

\* a_1.j was moved into a directory that held a_1.j and a_1_1.j, and
\* became a_1_2.j there
WitnessC14 ==
    \E i \in 1..Len(syscalls) :
        /\ syscalls[i].op = "rename" /\ syscalls[i].ok
        /\ syscalls[i].path = Join(Root, N_a_1)
        /\ syscalls[i].target = Join(Sub, <<"a", "_", "1", "_", "2", ".", "j">>)
        /\ {Join(Sub, N_a_1), Join(Sub, N_a_1_1)} \subseteq DOMAIN fs0.files \ vanished

-----------------------------------------------------------------------------
(* Claims about main, checked under Spec.                                  *)

\* C15: when the root does not exist or is not a directory, the run ends
\* with a non-zero exit status and has scanned, hashed, printed to standard
\* output, deleted, moved or created nothing.
ClaimC15 ==
    Root \notin fs0.dirs =>
        /\ pc \in {"main", "rejected"}
        /\ pc = "rejected" => exit_status = 1
        /\ files = <<>> /\ hashed = <<>> /\ groups = <<>>
        /\ syscalls = <<>> /\ stdout = <<>>
        /\ fs = fs0

\* the root is a regular file and the run was rejected
WitnessC15 ==
    /\ pc = "rejected"
    /\ DirEntry(Root) \in DOMAIN fs0.files
    /\ stderr = <<[msg |-> "Error: Not a directory", path |-> DirEntry(Root)]>>

\* C16: with a valid root the run always ends with exit status 0, whatever
\* fails on single files (unreadable files, failed deletes or moves, files
\* that vanish between hashing and resolution).
ClaimC16 ==
    (Root \in fs0.dirs /\ pc \in {"done", "crashed", "rejected"}) => exit_status = 0

\* no two scanned files that can be read have the same content
NoDuplicateFiles ==
    \A i, j \in 1..Len(files) :
        (i # j /\ Readable(files[i]) /\ Readable(files[j]))
            => fs0.files[files[i]].content # fs0.files[files[j]].content

\* the summary lines among the lines printed
Summaries == {i \in 1..Len(stdout) : "groups" \in DOMAIN stdout[i]}

\* C17 as stated: on a directory without duplicate files the run finds zero
\* groups, prints the final summary with 0 duplicate groups and exits 0.
ClaimC17AsStated ==
    (pc = "done" /\ NoDuplicateFiles) =>
        /\ groups = <<>>
        /\ exit_status = 0
        /\ \E i \in Summaries : stdout[i].groups = 0

\* C17: on a directory without duplicate files the run finds zero groups,
\* prints "No files found." or "No duplicates found." and no summary line,
\* issues no call on the file system and exits 0.
ClaimC17 ==
    (pc = "done" /\ NoDuplicateFiles) =>
        /\ groups = <<>>
        /\ exit_status = 0
        /\ stdout = <<[line |-> IF files = <<>> THEN "No files found."
                                ELSE "No duplicates found."]>>
        /\ Summaries = {}
        /\ syscalls = <<>>

\* two files of different content were scanned and hashed, and the run
\* ended with "No duplicates found."
WitnessC17 ==
    /\ pc = "done"
    /\ NoDuplicateFiles
    /\ Len(files) >= 2 /\ Len(hashed) >= 2
    /\ \A i \in 1..Len(files) : Readable(files[i])
    /\ stdout = <<[line |-> "No duplicates found."]>>

\* C19: without -r no file of a subdirectory is scanned, hashed, grouped,
\* deleted or moved, and the files of the subdirectory stay as they were;
\* with -r every regular file under the root is scanned.
ClaimC19 ==
    /\ ~args_recursive =>
          /\ \A p \in Range(files) \cup Range(hashed) : p.parent = Root
          /\ \A k \in 1..Len(groups) : \A p \in Range(groups[k].paths) : p.parent = Root
          /\ \A i \in 1..Len(syscalls) : syscalls[i].path.parent = Root
          /\ \A p \in DOMAIN fs0.files :
                p.parent = Sub => p \in DOMAIN fs.files /\ fs.files[p] = fs0.files[p]
    /\ (args_recursive /\ pc \notin {"main", "scanning", "rejected"}) =>
          Range(files) = DOMAIN fs0.files

\* without -r, a file of the root was deleted as a duplicate while a file
\* of the subdirectory with the same content was left alone
WitnessC19 ==
    /\ pc = "done"
    /\ ~args_recursive
    /\ \E i \in 1..Len(syscalls) : \E q \in DOMAIN fs.files :
          /\ syscalls[i].op = "unlink" /\ syscalls[i].ok
          /\ q.parent = Sub
          /\ fs.files[q].content = fs0.files[syscalls[i].path].content

\* the groups of a run, each as its set of members with the keeper chosen
KeepersOf(found) ==
    {[members |-> Range(found[k].paths), keeper |-> select_keeper(found[k].paths).keeper] :
        k \in 1..Len(found)}

-----------------------------------------------------------------------------
(* The scan over a tree that also holds symbolic links: main up to the     *)
(* groups. The resolution of the groups is modelled over trees of regular  *)
(* files and directories only (Spec).                                      *)

\* the regular files that may exist
ScanFiles == {Join(Root, N_a), Join(Sub, N_a_1)}

\* the symbolic links that may exist, each with what it points to: a
\* regular file (when it exists), a directory, and a path that never exists
ScanLinks ==
    [p \in {Join(Root, N_A), Join(Root, N_bb), Join(Sub, N_a)} |->
        IF p = Join(Root, N_A) THEN Join(Root, N_a)
        ELSE IF p = Join(Root, N_bb) THEN DirEntry(Sub)
        ELSE Join(Root, N_a_2)]

ScanInit ==
    /\ pc = "main"
    /\ \E present \in SUBSET ScanFiles : \E content \in [present -> Contents] :
       \E linked \in SUBSET DOMAIN ScanLinks :
          fs = [files |-> [p \in present |-> [origin |-> p, content |-> content[p]]],
                dirs |-> {Root, Sub},
                links |-> [p \in linked |-> ScanLinks[p]]]
    /\ fs0 = fs
    /\ unreadable \in {U \in SUBSET DOMAIN fs.files : Cardinality(U) <= MaxFaults}
    /\ args_recursive \in BOOLEAN
    /\ file_group = <<>>
    /\ Idle

ScanNext ==
    \/ Validate
    \/ Scan
    \/ GroupByHash
    \/ NoDuplicates

ScanSpec == ScanInit /\ [][ScanNext]_vars

\* the whole run over a tree that also holds symbolic links
LinkSpec == ScanInit /\ [][Next]_vars

\* C18: no symbolic link and no directory is passed to hash_file, is a
\* member of a duplicate group, or is the keeper or a removable of a group.
ClaimC18 ==
    LET special == DOMAIN fs.links \cup {DirEntry(d) : d \in fs.dirs}
    IN /\ \A i \in 1..Len(hashed) : hashed[i] \notin special
       /\ \A k \in 1..Len(groups) :
             /\ \A p \in Range(groups[k].paths) : p \notin special
             /\ KeeperOf(k) \notin special
             /\ \A p \in Removables(k) : p \notin special

-----------------------------------------------------------------------------
(* The order of the phases of a run, checked under Spec.                   *)

\* the phase of the run: Idle, Scanning, Hashing, Grouping, Resolving, Done
Phase(at) ==
    CASE at = "main" -> 0
      [] at = "scanning" -> 1
      [] at = "hashing" -> 2
      [] at = "grouped" -> 3
      [] at \in {"for_group", "for_dup"} -> 4
      [] at \in {"done", "crashed", "rejected"} -> 5

\* C21: the run never goes back to an earlier phase; the file list does not
\* change once hashing has begun; and when a delete or move is attempted
\* every scanned file has been hashed and the groups are built and final.
ClaimC21 ==
    [][/\ Phase(pc') >= Phase(pc)
       /\ files' # files => (pc = "scanning" /\ hashed = <<>> /\ groups = <<>>)
       /\ hashed' # hashed =>
             (pc = "hashing" /\ files' = files /\ syscalls = <<>> /\ syscalls' = <<>>)
       /\ groups' # groups => (pc = "hashing" /\ syscalls' = <<>>)
       /\ syscalls' # syscalls =>
             /\ Phase(pc) = 4
             /\ Range(hashed) = Range(files)
             /\ files' = files /\ hashed' = hashed /\ groups' = groups]_vars

\* a run that hashed three files, deleted or moved some and ended
WitnessC21 ==
    /\ pc = "done"
    /\ Len(files) >= 3 /\ Len(hashed) = Len(files)
    /\ syscalls # <<>>
    /\ stdout # <<>>

\* the messages printed to stderr about path p
ReportsOn(p) == {i \in 1..Len(stderr) : stderr[i].path = p}

\* C22: no scanned file is hashed twice, and once the hashing is over each
\* has been hashed once; no removable gets more than one unlink or rename,
\* and a failure on a path is reported once.
ClaimC22 ==
    /\ \A i, j \in 1..Len(hashed) : hashed[i] = hashed[j] => i = j
    /\ Phase(pc) >= 3 /\ pc # "rejected" =>
          \A p \in Range(files) : Cardinality({i \in 1..Len(hashed) : hashed[i] = p}) = 1
    /\ \A p \in Range(files) :
          /\ Cardinality({i \in CallsOn(p) : syscalls[i].op \in {"unlink", "rename"}}) <= 1
          /\ Cardinality(ReportsOn(p)) <= 1

\* a run that ended after a file could not be hashed and an unlink or
\* rename failed
WitnessC22 ==
    /\ pc = "done"
    /\ \E p \in Range(files) : p \in unreadable /\ Cardinality(ReportsOn(p)) = 1
    /\ \E i \in 1..Len(syscalls) :
          ~syscalls[i].ok /\ Cardinality(ReportsOn(syscalls[i].path)) = 1

-----------------------------------------------------------------------------
(* The keeper, checked over trees that also hold symbolic links (LinkSpec) *)

\* what reading path p returns in file system f, None when it cannot be
\* opened
ContentAt(f, p) ==
    IF p \in DOMAIN f.files THEN f.files[p].content
    ELSE IF p \in DOMAIN f.links /\ f.links[p] \in DOMAIN f.files
         THEN f.files[f.links[p]].content
         ELSE None

\* C28: in delete and move mode no unlink or rename is issued on the keeper
\* of a group; and when nobody else removes a file, the keeper can still be
\* read at its path with the content it had, so that a copy of each
\* duplicated content survives.
ClaimC28 ==
    action \in {"delete", "move"} =>
        \A k \in 1..Len(groups) :
            /\ CallsOn(KeeperOf(k)) = {}
            /\ vanished = {} =>
                  /\ LExists(KeeperOf(k))
                  /\ ContentAt(fs, KeeperOf(k)) = ContentAt(fs0, KeeperOf(k))
                  /\ \E q \in DOMAIN fs.files :
                        fs.files[q].content = ContentAt(fs0, KeeperOf(k))

-----------------------------------------------------------------------------
(* Delete mode and the summary, checked under Spec.                        *)

\* every path listed in a group
GroupedPaths == UNION {Range(groups[k].paths) : k \in 1..Len(groups)}

\* C29: after a delete run in which every unlink succeeded and nobody else
\* changed the tree, a new scan of the root with the same flag and algorithm
\* yields no duplicate group in any listing order, and the files left are
\* the files that were in no group plus the keeper of each group, unchanged.
ClaimC29 ==
    (/\ pc = "done" /\ action = "delete" /\ vanished = {}
     /\ \A i \in 1..Len(syscalls) : syscalls[i].ok) =>
        /\ \A again \in scan_directory(Root, args_recursive) :
              group_by_hash(again, args_algorithm).groups = <<>>
        /\ DOMAIN fs.files =
              (DOMAIN fs0.files \ GroupedPaths) \cup {KeeperOf(k) : k \in 1..Len(groups)}
        /\ \A p \in DOMAIN fs.files : fs.files[p] = fs0.files[p]

\* a delete run that removed two files, left a file that was in no group,
\* and ended
WitnessC29 ==
    /\ pc = "done" /\ action = "delete" /\ vanished = {}
    /\ Len(syscalls) >= 2
    /\ \A i \in 1..Len(syscalls) : syscalls[i].ok
    /\ \E p \in Range(files) : p \notin GroupedPaths /\ p \in DOMAIN fs.files

RECURSIVE ExpectedFiles(_)
\* the sum over the first k groups of the group size minus one
ExpectedFiles(k) ==
    IF k = 0 THEN 0 ELSE ExpectedFiles(k - 1) + Len(groups[k].paths) - 1

RECURSIVE ExpectedBytes(_)
\* the sum over the first k groups of (group size minus one) times the size
\* of the keeper
ExpectedBytes(k) ==
    IF k = 0 THEN 0
    ELSE ExpectedBytes(k - 1)
            + (Len(groups[k].paths) - 1) * Len(ContentAt(fs0, KeeperOf(k)))

\* C30: the summary reports the number of groups, the sum over the groups
\* of the group size minus one, and the bytes of that many copies of the
\* keepers, whatever the action is and whether deletes or moves failed (the
\* keepers being the files they were when the groups were built).
ClaimC30 ==
    \A i \in Summaries :
        (\A k \in 1..Len(groups) : KeeperOf(k) \notin vanished) =>
        /\ stdout[i].groups = Len(groups)
        /\ stdout[i].files = ExpectedFiles(Len(groups))
        /\ stdout[i].freed = format_size(ExpectedBytes(Len(groups)))

\* a delete or move run with a failed unlink or rename printed its summary
WitnessC30 ==
    /\ pc = "done"
    /\ action \in {"delete", "move"}
    /\ \E i \in 1..Len(syscalls) : ~syscalls[i].ok
    /\ \E i \in Summaries : stdout[i].files >= 2

-----------------------------------------------------------------------------
(* src/learning-logs-to-markdown/get_learning_logs.py: append_activity.    *)
(* Strings are sequences of one-character strings.                         *)

\* dedupe_files is not running
DedupeIdle ==
    /\ fs = [files |-> <<>>, dirs |-> {}, links |-> <<>>]
    /\ fs0 = fs
    /\ unreadable = {}
    /\ args_recursive = FALSE
    /\ file_group = <<>>
    /\ args = NoArgs /\ args_algorithm = None
    /\ files = <<>> /\ hashed = <<>> /\ groups = <<>>
    /\ action = None /\ dest = None
    /\ gi = 0 /\ di = 0
    /\ keeper = NoPath /\ duplicates = <<>>
    /\ file_size = 0 /\ total_removed = 0 /\ total_bytes_freed = 0
    /\ stdout = <<>> /\ stderr = <<>> /\ syscalls = <<>>
    /\ vanished = {}
    /\ exit_status = NoneInt

\* special_chars of get_string_without_special_characters (less the
\* backquote, which no string of the model holds), and the newline
SpecialChars == {"#", "*", "_", ">", "<", "/", "[", "]", "{", "}", "\\", "|", "\n"}

RECURSIVE Words(_, _, _)
\* str.split(): the maximal runs of non-blank characters of string, given the
\* words found so far and the word being read
Words(string, found, word) ==
    IF string = <<>>
    THEN IF word = <<>> THEN found ELSE Append(found, word)
    ELSE IF Head(string) = " "
         THEN Words(Tail(string), IF word = <<>> THEN found ELSE Append(found, word), <<>>)
         ELSE Words(Tail(string), found, Append(word, Head(string)))

RECURSIVE JoinWords(_)
\* " ".join(words)
JoinWords(words) ==
    IF words = <<>> THEN <<>>
    ELSE IF Len(words) = 1 THEN words[1]
    ELSE words[1] \o <<" ">> \o JoinWords(Tail(words))

RECURSIVE LStrip(_)
LStrip(string) ==
    IF string # <<>> /\ Head(string) = " " THEN LStrip(Tail(string)) ELSE string

RECURSIVE RStrip(_)
RStrip(string) ==
    IF string # <<>> /\ string[Len(string)] = " "
    THEN RStrip(SubSeq(string, 1, Len(string) - 1))
    ELSE string

\* get_string_without_special_characters
get_string_without_special_characters(string) ==
    LET replaced == [i \in 1..Len(string) |->
                        IF string[i] \in SpecialChars THEN " " ELSE string[i]]
        stripped == RStrip(LStrip(replaced))
        unbulleted == IF Len(stripped) >= 2 /\ SubSeq(stripped, 1, 2) = <<"-", " ">>
                      THEN SubSeq(stripped, 3, Len(stripped))
                      ELSE stripped
    IN JoinWords(Words(unbulleted, <<>>, <<>>))

\* get_formatted_notes
get_formatted_notes(note) ==
    IF note = <<>> THEN note
    ELSE <<"(", "_">> \o get_string_without_special_characters(note) \o <<"_", ")">>

\* get_formatted_activity
get_formatted_activity(activity, notes) ==
    IF activity = <<>> THEN <<>>
    ELSE IF notes # <<>>
         THEN <<"-", " ">> \o activity \o <<" ">> \o get_formatted_notes(notes)
         ELSE <<"-", " ">> \o activity

\* a in b, for two strings
IsSubstring(a, b) ==
    \E i \in 0..(Len(b) - Len(a)) : SubSeq(b, i + 1, i + Len(a)) = a

\* list.remove(x): the list without the first element equal to x
ListRemove(list, x) ==
    LET i == CHOOSE k \in 1..Len(list) : list[k] = x /\ \A j \in 1..(k - 1) : list[j] # x
    IN SubSeq(list, 1, i - 1) \o SubSeq(list, i + 1, Len(list))

\* append_activity(activity, notes, activities)
append_activity(activity, notes, list) ==
    LET formatted_activity == get_formatted_activity(activity, notes)
        formatted_activity_without_notes == get_formatted_activity(activity, <<>>)
    IN IF \E k \in 1..Len(list) : IsSubstring(formatted_activity, list[k])
       THEN list
       ELSE IF formatted_activity_without_notes \notin Range(list)
       THEN Append(list, formatted_activity)
       ELSE IF formatted_activity_without_notes \in Range(list)
               /\ formatted_activity \notin Range(list)
       THEN Append(ListRemove(list, formatted_activity_without_notes), formatted_activity)
       ELSE list

\* the activities of the rows: "A", "AB" and "A (_n_)" (get_data_tree calls
\* append_activity only when the activity is not empty)
ActivityPool == {<<"A">>, <<"A", "B">>, <<"A", " ", "(", "_", "n", "_", ")">>}

\* the notes of the rows: none, "n", "_n" and "m"
NotesPool == {<<>>, <<"n">>, <<"_", "n">>, <<"m">>}

ActivityInit ==
    /\ pc = "append_activity"
    /\ activities = <<>> /\ append_call = None
    /\ calls = 0
    /\ existing_names = {} /\ returned = <<>>
    /\ history_file = <<>> /\ settings = None /\ passes = <<>>
    /\ DedupeIdle

\* get_data_tree, lines 215-224: one call of append_activity
AppendActivity ==
    /\ pc = "append_activity"
    /\ calls < MaxCalls
    /\ \E activity \in ActivityPool : \E notes \in NotesPool :
          /\ activities' = append_activity(activity, notes, activities)
          /\ append_call' = [activity |-> activity, notes |-> notes]
    /\ calls' = calls + 1
    /\ UNCHANGED <<pc, fs, fs0, unreadable, vanished, args, args_algorithm, args_recursive,
                   files, hashed, groups, action, dest, gi, file_group, keeper, duplicates,
                   di, file_size, total_removed, total_bytes_freed, stdout, stderr,
                   syscalls, exit_status, existing_names, returned, history_file, settings,
                   passes>>

ActivityNext == AppendActivity

ActivitySpec == ActivityInit /\ [][ActivityNext]_vars

\* the entries an activity can have: without notes, or with some notes
EntriesOf(activity) == {get_formatted_activity(activity, n) : n \in NotesPool}

\* C23: the list never holds two equal entries, nor the note-less entry of
\* an activity together with an entry of it with notes; a call for an
\* activity that is present with the same notes, or made without notes for
\* an activity that is present, leaves the list as it is; and a call with
\* notes for an activity present without notes removes the note-less entry
\* and appends the entry with notes.
ClaimC23 ==
    [][LET a == append_call'.activity
           n == append_call'.notes
           entry == get_formatted_activity(a, n)
           bare == get_formatted_activity(a, <<>>)
       IN /\ \A i, j \in 1..Len(activities') : activities'[i] = activities'[j] => i = j
          /\ \A b \in ActivityPool : \A m \in NotesPool \ {<<>>} :
                ~(/\ get_formatted_activity(b, <<>>) \in Range(activities')
                  /\ get_formatted_activity(b, m) \in Range(activities'))
          /\ entry \in Range(activities) => activities' = activities
          /\ (n = <<>> /\ EntriesOf(a) \cap Range(activities) # {}) => activities' = activities
          /\ (n # <<>> /\ bare \in Range(activities) /\ entry \notin Range(activities)) =>
                activities' = Append(ListRemove(activities, bare), entry)]_vars

\* C24: a call for an activity of which the list holds no entry, with or
\* without notes, appends its formatted entry at the end and keeps the
\* entries there were, in their order.
ClaimC24 ==
    [][LET a == append_call'.activity
           n == append_call'.notes
       IN EntriesOf(a) \cap Range(activities) = {} =>
             activities' = Append(activities, get_formatted_activity(a, n))]_vars

-----------------------------------------------------------------------------
(* src/python/har_media_downloader/har_media_downloader.py:                *)
(* generate_filename. A URL is given by the netloc and the path urlparse   *)
(* finds in it.                                                            *)

RECURSIVE Unquote(_)
\* urllib.parse.unquote: %20 is the escape the URLs of the model hold
Unquote(string) ==
    IF string = <<>> THEN <<>>
    ELSE IF Len(string) >= 3 /\ SubSeq(string, 1, 3) = <<"%", "2", "0">>
         THEN <<" ">> \o Unquote(SubSeq(string, 4, Len(string)))
         ELSE <<Head(string)>> \o Unquote(Tail(string))

RECURSIVE PathName(_)
\* Path(path).name: what follows the last slash, trailing slashes dropped
PathName(path) ==
    IF path = <<>> THEN <<>>
    ELSE IF path[Len(path)] = "/" THEN PathName(SubSeq(path, 1, Len(path) - 1))
    ELSE LET slashes == {i \in 1..Len(path) : path[i] = "/"}
             last == IF slashes = {} THEN 0 ELSE CHOOSE i \in slashes : \A j \in slashes : j <= i
         IN SubSeq(path, last + 1, Len(path))

\* the characters sanitize_filename replaces by an underscore
InvalidChars == {"<", ">", ":", "\"", "/", "\\", "|", "?", "*"}

RECURSIVE CollapseUnderscores(_)
\* re.sub(r"_+", "_", ...)
CollapseUnderscores(string) ==
    IF Len(string) < 2 THEN string
    ELSE IF string[1] = "_" /\ string[2] = "_" THEN CollapseUnderscores(Tail(string))
    ELSE <<Head(string)>> \o CollapseUnderscores(Tail(string))

RECURSIVE StripSpacesDots(_)
\* str.strip(" .")
StripSpacesDots(string) ==
    IF string = <<>> THEN string
    ELSE IF Head(string) \in {" ", "."} THEN StripSpacesDots(Tail(string))
    ELSE IF string[Len(string)] \in {" ", "."}
         THEN StripSpacesDots(SubSeq(string, 1, Len(string) - 1))
         ELSE string

\* sanitize_filename (no name of the model comes near 200 characters)
sanitize_filename(filename) ==
    LET replaced == [i \in 1..Len(filename) |->
                        IF filename[i] \in InvalidChars THEN "_" ELSE filename[i]]
        sanitized == StripSpacesDots(CollapseUnderscores(replaced))
    IN IF sanitized = <<>> THEN <<"u", "n", "n", "a", "m", "e", "d">> ELSE sanitized

\* MIME_EXTENSIONS.get(mime_type.split(";")[0].strip().lower(), "")
expected_extension(mime_type) ==
    CASE mime_type = "image/jpeg" -> <<".", "j", "p", "g">>
      [] mime_type = "image/jpeg; q=1" -> <<".", "j", "p", "g">>
      [] OTHER -> <<>>

\* generate_filename down to "Handle duplicates": the name wanted
wanted_filename(url, mime_type) ==
    LET path == Unquote(url.path)
        named == IF path # <<>> /\ path # <<"/">>
                 THEN PathName(path)
                 ELSE [i \in 1..Len(url.netloc) |->
                          IF url.netloc[i] = "." THEN "_" ELSE url.netloc[i]]
        filename == sanitize_filename(named)
        current_ext == Lower(Suffix(filename))
        expected_ext == expected_extension(mime_type)
    IN IF current_ext = <<>> /\ expected_ext # <<>>
       THEN filename \o expected_ext
       ELSE filename

RECURSIVE new_name_skips(_, _, _, _)
\* the while True loop with the counter incremented before the name is built
new_name_skips(base, ext, counter, names) ==
    LET new_name == base \o <<"_">> \o Str(counter + 1) \o ext
    IN IF new_name \notin names THEN new_name
       ELSE new_name_skips(base, ext, counter + 1, names)

RECURSIVE new_name(_, _, _, _)
\* the while True loop of generate_filename
new_name(base, ext, counter, names) ==
    LET candidate == base \o <<"_">> \o Str(counter) \o ext
    IN IF candidate \notin names THEN candidate
       ELSE new_name(base, ext, counter + 1, names)

\* generate_filename: the name returned and existing_names after the call
generate_filename(url, mime_type, names) ==
    LET filename == wanted_filename(url, mime_type)
        result == IF filename \notin names THEN filename
                  ELSE new_name(Stem(filename), Suffix(filename), 1, names)
    IN [filename |-> result, existing_names |-> names \cup {result}]

\* the URLs of the entries: /a.j, /b/a.j, /a, /a:1.j, /%20a.j on host h.c,
\* and the host alone
Urls ==
    {[netloc |-> <<"h", ".", "c">>, path |-> q] :
        q \in {<<"/", "a", ".", "j">>, <<"/", "b", "/", "a", ".", "j">>, <<"/", "a">>,
               <<"/", "a", ":", "1", ".", "j">>, <<"/", "%", "2", "0", "a", ".", "j">>,
               <<"/">>}}

\* the mimeType of the entries, lower-cased by main
MimeTypes == {"image/jpeg; q=1", ""}

\* the names existing_names may hold before the first call (main starts
\* from the empty set)
NamesBefore == {<<"a", "_", "1", ".", "j">>, <<"a", "_", "2", ".", "j">>}

HarInit ==
    /\ pc = "generate_filename"
    /\ existing_names \in SUBSET NamesBefore
    /\ returned = <<>>
    /\ calls = 0
    /\ activities = <<>> /\ append_call = None
    /\ history_file = <<>> /\ settings = None /\ passes = <<>>
    /\ DedupeIdle

\* main, lines 375-380: one call of generate_filename
GenerateFilename ==
    /\ pc = "generate_filename"
    /\ calls < MaxCalls
    /\ \E url \in Urls : \E mime_type \in MimeTypes :
          LET r == generate_filename(url, mime_type, existing_names)
          IN /\ existing_names' = r.existing_names
             /\ returned' = Append(returned, [url |-> url, mime_type |-> mime_type,
                                              filename |-> r.filename])
    /\ calls' = calls + 1
    /\ UNCHANGED <<pc, fs, fs0, unreadable, vanished, args, args_algorithm, args_recursive,
                   files, hashed, groups, action, dest, gi, file_group, keeper, duplicates,
                   di, file_size, total_removed, total_bytes_freed, stdout, stderr,
                   syscalls, exit_status, activities, append_call, history_file, settings,
                   passes>>

HarNext == GenerateFilename

HarSpec == HarInit /\ [][HarNext]_vars

\* C25: the name a call returns is none of the names the set held (those it
\* held at first and those returned before), the set afterwards is the set
\* before plus that name, and when the name wanted is taken the result is
\* <base>_N<ext> for the smallest N >= 1 that is free.
ClaimC25 ==
    [][LET call == returned'[Len(returned')]
           wanted == wanted_filename(call.url, call.mime_type)
           numbered(n) == Stem(wanted) \o <<"_">> \o Str(n) \o Suffix(wanted)
       IN /\ call.filename \notin existing_names
          /\ \A i \in 1..Len(returned) : returned[i].filename # call.filename
          /\ existing_names' = existing_names \cup {call.filename}
          /\ IF wanted \notin existing_names
             THEN call.filename = wanted
             ELSE \E n \in 1..(Cardinality(existing_names) + 1) :
                     /\ call.filename = numbered(n)
                     /\ \A m \in 1..(n - 1) : numbered(m) \in existing_names]_vars

\* a.j was wanted again, with a.j, a_1.j and a_2.j taken, and a_3.j was
\* returned
WitnessC25 ==
    /\ Len(returned) >= 2
    /\ \A i \in 1..Len(returned) : wanted_filename(returned[i].url, returned[i].mime_type) = <<"a", ".", "j">>
    /\ returned[Len(returned)].filename = <<"a", "_", "3", ".", "j">>

-----------------------------------------------------------------------------
(* zsh_history_cleaner: the passes of clean_zsh_history over the history    *)
(* file. A line is a string that ends with its newline; an extended-history *)
(* line starts with the 15 characters ": <10-digit time>:0;".               *)

\* how many lines the history file holds at most
MaxLines == 4

\* the 15-character prefix of a line written at time 170000000<d>
Stamp(d) == <<":", " ", "1", "7", "0", "0", "0", "0", "0", "0", "0", d, ":", "0", ";">>

\* the lines a history file is made of: two entries of command a, one of b
\* and one of c, a line shorter than the prefix (the continuation of a
\* multi-line command) and an entry of a that has no newline
LinePool ==
    { Stamp("1") \o <<"a", "\n">>, Stamp("2") \o <<"a", "\n">>,
      Stamp("3") \o <<"b", "\n">>, Stamp("4") \o <<"c", "\n">>,
      <<"b", "\n">>, Stamp("5") \o <<"a">> }

\* readlines(): every line but the last ends with a newline
Histories ==
    UNION { {h \in [1..n -> LinePool] :
                \A i \in 1..(n - 1) : h[i][Len(h[i])] = "\n"} : n \in 0..MaxLines }

\* line[15:]
CommandText(line) == SubSeq(line, 16, Len(line))

\* re.compile(pattern).search(line[15:]) for a pattern of literal characters
matched(pattern, line) == IsSubstring(pattern, CommandText(line))

\* the for loop over settings['ignore_patterns'], lines 267-277
has_match(ignore_patterns, line) ==
    \E k \in 1..Len(ignore_patterns) : matched(ignore_patterns[k], line)

RECURSIVE ignore_loop(_, _)
\* clean_zsh_history, lines 266-277: the lines printed back into the file
ignore_loop(ignore_patterns, lines) ==
    IF lines = <<>> THEN <<>>
    ELSE IF has_match(ignore_patterns, Head(lines))
         THEN ignore_loop(ignore_patterns, Tail(lines))
         ELSE <<Head(lines)>> \o ignore_loop(ignore_patterns, Tail(lines))

RECURSIVE is_duplicate(_, _, _, _)
\* the inner loop of remove_duplicates_within_range over
\* range(following_line, max_line), indexes counted from 0 as in the code;
\* the IndexError past the last line ends the loop
is_duplicate(original_lines, line, following_line, max_line) ==
    IF following_line >= max_line THEN FALSE
    ELSE IF following_line + 1 > Len(original_lines) THEN FALSE
    ELSE IF CommandText(original_lines[following_line + 1]) = CommandText(line) THEN TRUE
    ELSE is_duplicate(original_lines, line, following_line + 1, max_line)

RECURSIVE within_loop(_, _, _)
\* the outer loop of remove_duplicates_within_range from line index on
within_loop(original_lines, index, range_num) ==
    IF index >= Len(original_lines) THEN <<>>
    ELSE LET line == original_lines[index + 1]
             next_line == index + 1
             max_line == next_line + range_num
             rest == within_loop(original_lines, index + 1, range_num)
         IN IF is_duplicate(original_lines, line, next_line, max_line)
            THEN rest
            ELSE <<line>> \o rest

\* the scan that looks one line less far than range_num
remove_duplicates_within_range_short(range_num, lines) ==
    within_loop(lines, 0, range_num - 1)

\* remove_duplicates_within_range(range_num, history_file): the new content
remove_duplicates_within_range(range_num, lines) ==
    within_loop(lines, 0, range_num)

RECURSIVE consecutive_loop(_, _)
consecutive_loop(lines, previous_line) ==
    IF lines = <<>> THEN <<>>
    ELSE IF CommandText(previous_line) = CommandText(Head(lines))
         THEN consecutive_loop(Tail(lines), previous_line)
         ELSE <<Head(lines)>> \o consecutive_loop(Tail(lines), Head(lines))

\* remove_consecutive_duplicates(history_file): previous_line starts as ""
remove_consecutive_duplicates(lines) == consecutive_loop(lines, <<>>)

RECURSIVE seen_loop(_, _)
seen_loop(lines, seen) ==
    IF lines = <<>> THEN <<>>
    ELSE IF CommandText(Head(lines)) \in seen
         THEN seen_loop(Tail(lines), seen)
         ELSE <<Head(lines)>> \o seen_loop(Tail(lines), seen \cup {CommandText(Head(lines))})

\* the pass that compares each line with the line printed before it only
remove_all_duplicates_adjacent(lines) == remove_consecutive_duplicates(lines)

\* remove_all_duplicates(history_file): seen starts empty
remove_all_duplicates(lines) == seen_loop(lines, {})

\* one pass over the file, as the log of passes records it
Pass(name, before, after) == [pass |-> name, before |-> before, after |-> after]

\* clean_zsh_history(settings, history_file): the passes it runs, in order;
\* the file is left as the last pass wrote it. The backup copy and the
\* counts printed are no part of the history file.
clean_zsh_history(config, lines) ==
    LET kept == ignore_loop(config.ignore_patterns, lines)
        first == <<Pass("ignore_patterns", lines, kept)>>
        num_lines == config.remove_duplicates_within_X_lines
    IN IF config.remove_all_duplicated_lines
       THEN first \o <<Pass("remove_all_duplicates", kept, remove_all_duplicates(kept))>>
       ELSE IF num_lines > 1
       THEN first \o <<Pass("remove_duplicates_within_range", kept,
                            remove_duplicates_within_range(num_lines, kept))>>
       ELSE IF config.remove_consecutive_duplicates
       THEN first \o <<Pass("remove_consecutive_duplicates", kept,
                            remove_consecutive_duplicates(kept))>>
       ELSE first

\* the values of remove_duplicates_within_X_lines
Ranges == {1, 2, 3}

\* settings.json: the settings that clean_zsh_history reads
SettingsPool ==
    [remove_all_duplicated_lines : BOOLEAN,
     remove_duplicates_within_X_lines : {1, 2},
     remove_consecutive_duplicates : BOOLEAN,
     ignore_patterns : {<<>>, << <<"c">> >>}]

OtherScriptsIdle ==
    /\ activities = <<>> /\ append_call = None
    /\ existing_names = {} /\ returned = <<>>
    /\ calls = 0

CleanInit ==
    /\ pc = "clean_zsh_history"
    /\ history_file \in Histories
    /\ settings \in SettingsPool
    /\ passes = <<>>
    /\ OtherScriptsIdle
    /\ DedupeIdle

\* launch_cleanup, line 315: one run of clean_zsh_history
CleanZshHistory ==
    /\ pc = "clean_zsh_history"
    /\ LET ran == clean_zsh_history(settings, history_file)
       IN /\ passes' = ran
          /\ history_file' = ran[Len(ran)].after
    /\ pc' = "cleaned"
    /\ UNCHANGED <<fs, fs0, unreadable, vanished, args, args_algorithm, args_recursive,
                   files, hashed, groups, action, dest, gi, file_group, keeper, duplicates,
                   di, file_size, total_removed, total_bytes_freed, stdout, stderr,
                   syscalls, exit_status, activities, append_call, existing_names,
                   returned, settings, calls>>

CleanNext == CleanZshHistory

CleanSpec == CleanInit /\ [][CleanNext]_vars

\* the lines of a file at the indexes of K, in their order in the file
LinesAt(lines, K) ==
    [n \in 1..Cardinality(K) |->
        lines[CHOOSE i \in K : Cardinality({j \in K : j < i}) = n - 1]]

\* the indexes of the lines of a file that no ignore pattern matches and
\* whose command text is on no earlier line
FirstOccurrences(lines, ignore_patterns) ==
    {i \in 1..Len(lines) :
        /\ ~has_match(ignore_patterns, lines[i])
        /\ \A j \in 1..(i - 1) : CommandText(lines[j]) # CommandText(lines[i])}

\* C26: after a run with remove_all_duplicated_lines set no two lines of the
\* file share a command text, the file is the first occurrence of each
\* command text (of the lines no ignore pattern removed) in the original
\* order, and the passes run are the ignore pass and remove_all_duplicates:
\* neither the within-X-lines pass nor the consecutive pass.
ClaimC26 ==
    (pc = "cleaned" /\ settings.remove_all_duplicated_lines) =>
        /\ \A i, j \in 1..Len(history_file) :
              CommandText(history_file[i]) = CommandText(history_file[j]) => i = j
        /\ history_file = LinesAt(passes[1].before,
                                  FirstOccurrences(passes[1].before, settings.ignore_patterns))
        /\ [k \in 1..Len(passes) |-> passes[k].pass] = <<"ignore_patterns", "remove_all_duplicates">>

\* all three settings were on and the file held a, b, a: the second a, two
\* lines after the first and not next to it, was removed
WitnessC26 ==
    /\ pc = "cleaned"
    /\ settings.remove_all_duplicated_lines
    /\ settings.remove_duplicates_within_X_lines = 2
    /\ settings.remove_consecutive_duplicates
    /\ passes[1].before = <<Stamp("1") \o <<"a", "\n">>, Stamp("3") \o <<"b", "\n">>,
                            Stamp("2") \o <<"a", "\n">>>>
    /\ history_file = <<Stamp("1") \o <<"a", "\n">>, Stamp("3") \o <<"b", "\n">>>>

RangeInit ==
    /\ pc = "remove_duplicates_within_range"
    /\ history_file \in Histories
    /\ settings \in [remove_all_duplicated_lines : {FALSE},
                     remove_duplicates_within_X_lines : Ranges,
                     remove_consecutive_duplicates : {FALSE},
                     ignore_patterns : {<<>>}]
    /\ passes = <<>>
    /\ OtherScriptsIdle
    /\ DedupeIdle

\* one execution of remove_duplicates_within_range on the file; passes holds
\* the last execution
RemoveDuplicatesWithinRange ==
    /\ pc = "remove_duplicates_within_range"
    /\ LET after == remove_duplicates_within_range(
                        settings.remove_duplicates_within_X_lines, history_file)
       IN /\ history_file' = after
          /\ passes' = <<Pass("remove_duplicates_within_range", history_file, after)>>
    /\ UNCHANGED <<pc, fs, fs0, unreadable, vanished, args, args_algorithm, args_recursive,
                   files, hashed, groups, action, dest, gi, file_group, keeper, duplicates,
                   di, file_size, total_removed, total_bytes_freed, stdout, stderr,
                   syscalls, exit_status, activities, append_call, existing_names,
                   returned, settings, calls>>

RangeNext == RemoveDuplicatesWithinRange

\* the script is executed again and again
RangeSpec == RangeInit /\ [][RangeNext]_vars /\ WF_vars(RemoveDuplicatesWithinRange)

\* the indexes of the lines whose command text is on none of the next X lines
NotRepeatedWithin(lines, X) ==
    {i \in 1..Len(lines) :
        \A j \in (i + 1)..(i + X) :
            j <= Len(lines) => CommandText(lines[j]) # CommandText(lines[i])}

\* a further execution would leave the file as it is and no command text
\* occurs again within the next X lines
Converged ==
    LET X == settings.remove_duplicates_within_X_lines
    IN /\ remove_duplicates_within_range(X, history_file) = history_file
       /\ NotRepeatedWithin(history_file, X) = 1..Len(history_file)

\* C27: each execution keeps exactly the lines whose command text is on none
\* of the next X lines of the file as it was before the execution, and
\* executed again and again the file becomes, and stays, one that a further
\* execution leaves unchanged and that repeats no command text within X lines.
ClaimC27 ==
    /\ [][history_file' = LinesAt(history_file,
              NotRepeatedWithin(history_file, settings.remove_duplicates_within_X_lines))]_vars
    /\ <>[]Converged

\* an execution removed a line and by that brought two equal commands within
\* X lines of each other: one more execution is needed
WitnessC27 ==
    /\ passes # <<>>
    /\ Len(passes[1].after) < Len(passes[1].before)
    /\ history_file = passes[1].after
    /\ ~Converged

====
